---- MODULE Spec2Model ----
(***************************************************************************)
(* Client-side activation layer of the anycode extension:                  *)
(*   - SupportedLanguages (supportedLanguages.ts): the language registry,  *)
(*     its cached filtered view and its change notification;               *)
(*   - startClient / stopServers / _startServer (client.ts): the server    *)
(*     supervisor, the per-instance initialization chain and the           *)
(*     file/read request handler.                                          *)
(* Every action is one run-to-completion turn of the extension host's      *)
(* event loop: a host event together with all promise continuations        *)
(* (microtasks) it makes runnable.                                         *)
(***************************************************************************)
EXTENDS Integers, Sequences, FiniteSets, TLC

VARIABLES
    config,            \* user value of anycode.language.<id>.enabled, per language
    extensions,        \* installed extensions (vscode.extensions)
    filteredAll,       \* SupportedLanguages._filteredAll
    registryDisposed,  \* SupportedLanguages.dispose() has run
    symbolIndexSize,   \* configured anycode.symbolIndexSize
    workspaceFileCount, \* how many files vscode.workspace.findFiles yields
    workspaceKind,     \* workspace folders and the remote-hub companion
    dbName,            \* context.workspaceState's value under the key 'dbName'
    servers,           \* every _startServer call made so far, in call order
    serverHandles,     \* startClient's serverHandles (indices into servers)
    tasks,             \* stopServers calls suspended in await Promise.allSettled
    deactivated,       \* context.subscriptions have been disposed
    changes,           \* host change events delivered so far (history)
    fires,             \* _onDidChange.fire calls so far (history)
    throws,            \* dispose calls that threw so far (history)
    req                \* the file/read request being served

vars == <<config, extensions, filteredAll, registryDisposed, symbolIndexSize,
          workspaceFileCount, workspaceKind, dbName, servers, serverHandles,
          tasks, deactivated, changes, fires, throws, req>>

registryVars == <<config, extensions, filteredAll, registryDisposed>>
workspaceVars == <<symbolIndexSize, workspaceFileCount, workspaceKind>>
supervisorVars == <<dbName, servers, serverHandles, tasks, deactivated, changes,
                    fires, throws>>

(***************************************************************************)
(* Bounds of the model.                                                    *)
(***************************************************************************)
MaxChanges == 2
MaxThrows == 1

(***************************************************************************)
(* Language registry: supportedLanguages.ts                                *)
(***************************************************************************)
\* SupportedLanguages._all, in table order
LanguageIds == <<"c", "cpp", "csharp", "go", "java", "php", "python", "rust", "typescript">>

LanguageSet == {LanguageIds[i] : i \in 1..Len(LanguageIds)}

\* a user setting is true, false, or not set at all
FlagValues == {"true", "false", "absent"}

TsExtension == "vscode.typescript-language-features"
PyExtension == "ms-python.python"
RemoteHubExtension == "ms-vscode.remote-repositories"
CompanionExtensions == {TsExtension, PyExtension}

\* the default the extension manifest contributes for language.<id>.enabled
ConfigDefault == "true"

\* WorkspaceConfiguration.get(key): the user value, else the contributed default
ConfigGet(cfg, id) == IF cfg[id] = "absent" THEN ConfigDefault ELSE cfg[id]

\* JavaScript truthiness of a boolean-or-undefined setting
Truthy(v) == v = "true"

\* mutant of WellKnownIgnored: the python companion is not looked up
WellKnownIgnoredNoPython(exts) ==
    IF TsExtension \in exts THEN {"typescript"} ELSE {}

\* the wellKnownIgnored set built in getSupportedLanguages
WellKnownIgnored(exts) ==
    (IF TsExtension \in exts THEN {"typescript"} ELSE {})
        \cup (IF PyExtension \in exts THEN {"python"} ELSE {})

\* the filter callback of getSupportedLanguages
KeepLanguage(cfg, exts, id) ==
    /\ id \notin WellKnownIgnored(exts)
    /\ Truthy(ConfigGet(cfg, id))

\* this._all.filter(...): table order is kept
FilterLanguages(cfg, exts) ==
    SelectSeq(LanguageIds, LAMBDA id : KeepLanguage(cfg, exts, id))

NoCache == [valid |-> FALSE, langs |-> <<>>]

\* getSupportedLanguages(): the cache after the call; its langs are the result
GetSupportedLanguages(cache, cfg, exts) ==
    IF cache.valid THEN cache
    ELSE [valid |-> TRUE, langs |-> FilterLanguages(cfg, exts)]

\* getSupportedLanguagesAsSelector(): the language ids of getSupportedLanguages()
GetSupportedLanguagesAsSelector(cache, cfg, exts) ==
    GetSupportedLanguages(cache, cfg, exts).langs


(***************************************************************************)
(* Workspace: what the host answers to findFiles and to the capability     *)
(* query of _canInitWithoutLimits.                                         *)
(***************************************************************************)
\* the file-count threshold above which the capability query is made
QueryThreshold == 50

\* Number.MAX_SAFE_INTEGER, kept within 32 bits; it only has to exceed every
\* list length
MaxSafeInteger == 2147483647

\* the i-th discovered file; discovery order is not sorted by identity
FileId(i) == (i * 37) % 101

\* what findFiles yields when n files match, in discovery order
Files(n) == [i \in 1..n |-> FileId(i)]

\* String(uri) of uris.map(String)
UriToString(u) == <<"file", u>>

\* workspace folders: none at all, only local ones, or only vscode-vfs ones;
\* remoteHub: how the remote-hub companion answers
\*   absent      no such extension (remoteHub?.activate() is undefined)
\*   rejects     activate() rejects
\*   noApi       the api has no loadWorkspaceContents function
\*   loadFalse   loadWorkspaceContents resolves false
\*   loadRejects loadWorkspaceContents rejects
\*   loadTrue    loadWorkspaceContents resolves true
WorkspaceKinds ==
    {[folders |-> "none", remoteHub |-> "absent"],
     [folders |-> "local", remoteHub |-> "absent"],
     [folders |-> "local", remoteHub |-> "loadTrue"],
     [folders |-> "remote", remoteHub |-> "absent"],
     [folders |-> "remote", remoteHub |-> "rejects"],
     [folders |-> "remote", remoteHub |-> "noApi"],
     [folders |-> "remote", remoteHub |-> "loadFalse"],
     [folders |-> "remote", remoteHub |-> "loadRejects"],
     [folders |-> "remote", remoteHub |-> "loadTrue"]}

\* _canInitWithoutLimits up to its first real suspension:
\* "false", "true", or "query" when it awaits the remote-hub companion
CanInitSync(kind) ==
    IF kind.folders = "none" THEN "false"
    ELSE IF kind.folders = "local" THEN "true"
    ELSE IF kind.remoteHub = "absent" THEN "false"
    ELSE "query"

\* _canInitWithoutLimits after the companion answered: "false", "true", "throws"
CanInitAnswer(kind) ==
    CASE kind.remoteHub \in {"noApi", "loadFalse"} -> "false"
      [] kind.remoteHub \in {"rejects", "loadRejects"} -> "throws"
      [] OTHER -> "true"

\* _isRemoteHubWorkspace()
IsRemoteHubWorkspace(kind) ==
    IF kind.remoteHub = "absent" THEN FALSE
    ELSE kind.folders = "remote"

\* anycode.symbolIndexSize as the user set it, or not set
NotSet == [set |-> FALSE, value |-> 0]
UserSize(n) == [set |-> TRUE, value |-> n]

\* the default of get<number>('symbolIndexSize', 500)
DefaultIndexSize == 500

\* vscode.workspace.getConfiguration('anycode').get('symbolIndexSize', 500)
ConfiguredSize(c) == IF c.set THEN c.value ELSE DefaultIndexSize

SeqToSet(q) == {q[p] : p \in 1..Len(q)}

Max(a, b) == IF a >= b THEN a ELSE b
Min(a, b) == IF a <= b THEN a ELSE b

\* Math.max(0, symbolIndexSize)
ClampSize(c) == Max(0, c)

\* Array.prototype.slice(0, end)
Slice(all, end) ==
    LET n == Len(all)
        e == IF end < 0 THEN Max(n + end, 0) ELSE Min(end, n)
    IN  SubSeq(all, 1, e)


(***************************************************************************)
(* Server instances: _startServer                                          *)
(***************************************************************************)
\* workspaceState holds no 'dbName'
NoName == ""

\* a name an earlier session stored
StoredName == "anycode_prev"

\* the names `anycode_${Math.random().toString(32).slice(2)}` can come out as
RandomNames == {"anycode_a", "anycode_b"}

\* the draws of Math.random that differ in effect: with a name stored the
\* draw is discarded, so one draw stands for all
RandomDraws(db) == IF db = NoName THEN RandomNames ELSE {"anycode_a"}

\* mutant of ReadOrCreate: the stored name is not looked up
AlwaysCreate(db, rnd) == rnd

\* context.workspaceState.get('dbName', rnd)
ReadOrCreate(db, rnd) == IF db = NoName THEN rnd ELSE db

\* _startServer up to `await client.onReady()`: the instance it creates.
\*   handle       state of the promise pushed to serverHandles
\*   disposables  the instance's disposables array, in push order
\*   disposed     the members of disposables that have been disposed
\*   handleDisposed  whether the handle's dispose() ran: no, yes, threw
\*   init         the `init` promise chain: none, finding (findFiles pending),
\*                query (capability query pending), sent (queue/init pending),
\*                done, failed
\*   query        _canInitWithoutLimits: none (not called), pending, true,
\*                false, rejected
\*   databaseName the databaseName of its initializationOptions
NoServer(langs, sel) ==
    [languages |-> langs, selector |-> sel, handle |-> "fulfilled",
     client |-> FALSE, disposables |-> <<>>, disposed |-> {},
     handleDisposed |-> "no", init |-> "none", query |-> "none", size |-> 0,
     numOfFiles |-> 0, payload |-> <<>>, hasWorkspaceContents |-> 0,
     fileRead |-> FALSE, status |-> "none", databaseName |-> NoName]

\* mutant of NewServer: the empty-selector early return is missing
NewServerNoEmptyCheck(langs, sel, name) ==
    [NoServer(langs, sel) EXCEPT
        !.handle = "pending", !.client = TRUE, !.databaseName = name,
        !.disposables = <<"watcher", "clientStart", "clientDestroy">>]

\* _startServer with the database name `name` at hand, up to its first await
NewServer(langs, sel, name) ==
    IF Len(sel) = 0
    THEN NoServer(langs, sel)
    ELSE [NoServer(langs, sel) EXCEPT
            !.handle = "pending", !.client = TRUE, !.databaseName = name,
            !.disposables = <<"watcher", "clientStart", "clientDestroy">>]

\* startServer(): the call of _startServer and the push of its promise
\* (db: the stored database name; rnd: what Math.random yields in this call)
StartServer(srv, handles, cache, cfg, exts, db, rnd) ==
    LET c1 == GetSupportedLanguages(cache, cfg, exts)
        sel == GetSupportedLanguagesAsSelector(c1, cfg, exts)
        new == NewServer(c1.langs, sel, ReadOrCreate(db, rnd))
    IN  [servers |-> Append(srv, new),
         serverHandles |-> Append(handles, Len(srv) + 1),
         filteredAll |-> GetSupportedLanguages(c1, cfg, exts),
         dbName |-> IF new.client THEN new.databaseName ELSE db]

\* the continuation of _startServer after client.onReady() resolved
ReadyServer(s, indexSize) ==
    [s EXCEPT !.handle = "fulfilled",
              !.size = ClampSize(ConfiguredSize(indexSize)),
              !.init = "finding",
              !.disposables = Append(@, "initCancel"),
              !.fileRead = TRUE]

\* all.slice(0, size) and client.sendRequest('queue/init', uris.map(String))
SendInit(s, all, unlimited) ==
    LET size == IF unlimited THEN MaxSafeInteger ELSE s.size
        uris == Slice(all, size)
    IN  [s EXCEPT !.init = "sent", !.size = size, !.numOfFiles = Len(all),
                  !.hasWorkspaceContents = IF unlimited THEN 1 ELSE 0,
                  !.payload = [i \in 1..Len(uris) |-> UriToString(uris[i])]]

\* mutant of NeedsQuery: `>=` for `>`
NeedsQueryFrom50(all) == Len(all) >= QueryThreshold

\* `all.length > 50`: whether the capability query is made
NeedsQuery(all) == Len(all) > QueryThreshold

\* mutant of FoundFiles: queue/init is sent without the capability query
FoundFilesNoQuery(s, all, kind) == SendInit(s, all, FALSE)

\* the findFiles continuation up to its next suspension
FoundFiles(s, all, kind) ==
    IF NeedsQuery(all)
    THEN CASE CanInitSync(kind) = "query" -> [s EXCEPT !.init = "query", !.query = "pending"]
           [] CanInitSync(kind) = "true" -> SendInit([s EXCEPT !.query = "true"], all, TRUE)
           [] OTHER -> SendInit([s EXCEPT !.query = "false"], all, FALSE)
    ELSE SendInit(s, all, FALSE)

\* the continuation after `await _canInitWithoutLimits()` suspended
Queried(s, all, kind) ==
    CASE CanInitAnswer(kind) = "throws" -> [s EXCEPT !.init = "failed", !.query = "rejected"]
      [] CanInitAnswer(kind) = "true" -> SendInit([s EXCEPT !.query = "true"], all, TRUE)
      [] OTHER -> SendInit([s EXCEPT !.query = "false"], all, FALSE)

\* mutant of Answered: the hint does not look at hasWorkspaceContents
AnsweredHintOnRemoteHub(s, kind) ==
    [s EXCEPT !.init = "done",
              !.disposables = Append(@, "statusItem"),
              !.status = IF IsRemoteHubWorkspace(kind) THEN "hint" ELSE "generic"]

\* the continuation after queue/init was answered: telemetry, then
\* _showStatusAndInfo(selector, !hasWorkspaceContents && _isRemoteHubWorkspace(), disposables)
Answered(s, kind) ==
    [s EXCEPT !.init = "done",
              !.disposables = Append(@, "statusItem"),
              !.status = IF s.hasWorkspaceContents = 0 /\ IsRemoteHubWorkspace(kind)
                         THEN "hint" ELSE "generic"]

\* the handle's dispose(): disposables.forEach(d => d.dispose()), where member
\* number `thrower` throws (0: none does), so that it and the later ones stay
DisposeServer(s, thrower) ==
    LET n == Len(s.disposables)
        upto == IF thrower = 0 THEN n ELSE thrower - 1
    IN  [s EXCEPT !.handleDisposed = IF thrower = 0 THEN "yes" ELSE "threw",
                  !.disposed = @ \cup {s.disposables[k] : k \in 1..upto}]

\* Promise.race([init, initCancel]), the task of the 'Building Index...'
\* progress: whether it is settled. Mutant: it waits for init alone
ProgressWaitsForInit(s) == s.init \in {"done", "failed"}

ProgressSettled(s) ==
    \/ s.init \in {"done", "failed"}
    \/ "initCancel" \in s.disposed

\* vscode.window.withProgress(..., () => Promise.race([init, initCancel])):
\* none (not shown), running, done
Progress(s) ==
    IF "initCancel" \notin SeqToSet(s.disposables) THEN "none"
    ELSE IF ProgressSettled(s) THEN "done" ELSE "running"


(***************************************************************************)
(* Supervisor: startClient, stopServers and the onDidChange listener       *)
(***************************************************************************)
\* Promise.allSettled(oldHandles) is resolved
Settled(srv, old) == \A p \in 1..Len(old) : srv[old[p]].handle # "pending"

NoThrow == [at |-> 0, member |-> 0]

\* how the loop over `result` may go: no dispose throws, or the dispose of the
\* handle at position `at` throws in its member number `member`
ThrowPlans(srv, old, thrown) ==
    {NoThrow} \cup
    IF thrown >= MaxThrows THEN {}
    ELSE UNION {{[at |-> p, member |-> k] : k \in 1..Len(srv[old[p]].disposables)} :
                    p \in {q \in 1..Len(old) : srv[old[q]].handle = "fulfilled"}}

\* stopServers after its await: `for (const item of result)` disposing the
\* fulfilled handles in order, until a dispose throws
StopLoop(srv, old, plan) ==
    [i \in DOMAIN srv |->
        IF \E p \in 1..Len(old) : old[p] = i
        THEN LET p == CHOOSE q \in 1..Len(old) : old[q] = i
             IN  IF srv[i].handle # "fulfilled" THEN srv[i]
                 ELSE IF plan.at = 0 \/ p < plan.at THEN DisposeServer(srv[i], 0)
                 ELSE IF p = plan.at THEN DisposeServer(srv[i], plan.member)
                 ELSE srv[i]
        ELSE srv[i]]

\* what runs once Promise.allSettled(oldHandles) is resolved: the rest of
\* stopServers and, in the onDidChange listener, startServer()
AfterAwait(kind, old, plan, srv, handles, cache, cfg, exts, db, rnd) ==
    LET stopped == StopLoop(srv, old, plan)
    IN  IF plan.at # 0 \/ kind # "change"
        THEN [servers |-> stopped, serverHandles |-> handles, filteredAll |-> cache,
              dbName |-> db]
        ELSE StartServer(stopped, handles, cache, cfg, exts, db, rnd)

\* stopServers() called by `kind` (the onDidChange listener, or deactivation)
\* with the registry in state (cache, cfg, exts)
StopServers(kind, cache, cfg, exts) ==
    LET old == serverHandles
    IN  IF Settled(servers, old)
        THEN \E plan \in ThrowPlans(servers, old, throws) : \E rnd \in RandomDraws(dbName) :
                LET r == AfterAwait(kind, old, plan, servers, <<>>, cache, cfg, exts,
                                    dbName, rnd)
                IN  /\ servers' = r.servers
                    /\ serverHandles' = r.serverHandles
                    /\ filteredAll' = r.filteredAll
                    /\ dbName' = r.dbName
                    /\ throws' = throws + (IF plan.at = 0 THEN 0 ELSE 1)
                    /\ UNCHANGED tasks
        ELSE /\ tasks' = Append(tasks, [kind |-> kind, old |-> old])
             /\ serverHandles' = <<>>
             /\ filteredAll' = cache
             /\ UNCHANGED <<servers, throws, dbName>>

\* the promise of instance i settles as `settled`; a stopServers call that
\* waited for it as its last pending handle goes on
Settle(i, settled) ==
    LET srv == [servers EXCEPT ![i] = settled]
        ready == {t \in 1..Len(tasks) :
                     i \in SeqToSet(tasks[t].old) /\ Settled(srv, tasks[t].old)}
    IN  IF ready = {}
        THEN /\ servers' = srv
             /\ UNCHANGED <<serverHandles, filteredAll, tasks, throws, dbName>>
        ELSE LET t == CHOOSE x \in ready : TRUE
                 rest == [x \in 1..(Len(tasks) - 1) |->
                            IF x < t THEN tasks[x] ELSE tasks[x + 1]]
             IN  \E plan \in ThrowPlans(srv, tasks[t].old, throws) :
                 \E rnd \in RandomDraws(dbName) :
                    LET r == AfterAwait(tasks[t].kind, tasks[t].old, plan, srv,
                                        serverHandles, filteredAll, config, extensions,
                                        dbName, rnd)
                    IN  /\ servers' = r.servers
                        /\ serverHandles' = r.serverHandles
                        /\ filteredAll' = r.filteredAll
                        /\ dbName' = r.dbName
                        /\ tasks' = rest
                        /\ throws' = throws + (IF plan.at = 0 THEN 0 ELSE 1)

\* mutant of Reset: the cache is not dropped
ResetKeepCache(cfg, exts) ==
    /\ fires' = fires + 1
    /\ StopServers("change", filteredAll, cfg, exts)

\* SupportedLanguages._reset() with the registry's inputs now (cfg, exts):
\* the cache is dropped and the event fired, which runs startClient's listener
Reset(cfg, exts) ==
    /\ fires' = fires + 1
    /\ StopServers("change", NoCache, cfg, exts)

\* the host delivers a change event; the registry listens until disposed
HostChange(cfg, exts) ==
    /\ changes < MaxChanges
    /\ changes' = changes + 1
    /\ config' = cfg
    /\ extensions' = exts
    /\ IF registryDisposed
       THEN UNCHANGED <<filteredAll, fires, servers, serverHandles, tasks, throws,
                        dbName>>
       ELSE Reset(cfg, exts)
    /\ UNCHANGED <<registryDisposed, deactivated, workspaceVars, req>>

\* the languages whose setting the model changes
ToggleLanguages == {"c", "python"}

\* onDidChangeConfiguration with e.affectsConfiguration('anycode.language')
ChangeConfiguration ==
    \E id \in ToggleLanguages : \E v \in {"true", "false"} \ {config[id]} :
        HostChange([config EXCEPT ![id] = v], extensions)

\* vscode.extensions.onDidChange: a companion is installed or removed
ChangeExtensions ==
    \E e \in {PyExtension} :
        HostChange(config, IF e \in extensions THEN extensions \ {e}
                           ELSE extensions \cup {e})

\* client.onReady() resolves for instance i
ClientReady(i) ==
    /\ servers[i].handle = "pending"
    /\ Settle(i, ReadyServer(servers[i], symbolIndexSize))
    /\ UNCHANGED <<config, extensions, registryDisposed, deactivated, changes,
                   fires, workspaceVars, req>>

\* client.onReady() rejects for instance i: _startServer rejects
ClientFailed(i) ==
    /\ servers[i].handle = "pending"
    /\ Settle(i, [servers[i] EXCEPT !.handle = "rejected"])
    /\ UNCHANGED <<config, extensions, registryDisposed, deactivated, changes,
                   fires, workspaceVars, req>>

\* findFiles resolves for instance i
FindFilesDone(i) ==
    /\ servers[i].init = "finding"
    /\ servers' = [servers EXCEPT ![i] = FoundFiles(@, Files(workspaceFileCount), workspaceKind)]
    /\ UNCHANGED <<registryVars, workspaceVars, dbName, serverHandles, tasks,
                   deactivated, changes, fires, throws, req>>

\* the remote-hub companion answers the capability query of instance i
QueryDone(i) ==
    /\ servers[i].init = "query"
    /\ servers' = [servers EXCEPT ![i] = Queried(@, Files(workspaceFileCount), workspaceKind)]
    /\ UNCHANGED <<registryVars, workspaceVars, dbName, serverHandles, tasks,
                   deactivated, changes, fires, throws, req>>

\* the server answers queue/init of instance i
InitAnswered(i) ==
    /\ servers[i].init = "sent"
    /\ servers' = [servers EXCEPT ![i] = Answered(@, workspaceKind)]
    /\ UNCHANGED <<registryVars, workspaceVars, dbName, serverHandles, tasks,
                   deactivated, changes, fires, throws, req>>

\* queue/init of instance i fails: client.sendRequest rejects (the server
\* answers with an error, or the client refuses or drops the request)
InitRejected(i) ==
    /\ servers[i].init = "sent"
    /\ servers' = [servers EXCEPT ![i] = [@ EXCEPT !.init = "failed"]]
    /\ UNCHANGED <<registryVars, workspaceVars, dbName, serverHandles, tasks,
                   deactivated, changes, fires, throws, req>>

\* deactivation disposes context.subscriptions in order: the registry, the
\* listener, and the disposable that calls stopServers
Deactivate ==
    /\ ~deactivated
    /\ deactivated' = TRUE
    /\ registryDisposed' = TRUE
    /\ StopServers("deactivate", filteredAll, config, extensions)
    /\ UNCHANGED <<config, extensions, changes, fires, workspaceVars, req>>

\* no file/read request is being served
\* (statOk, readOk: fs.stat, fs.readFile resolved; readBytes: what readFile
\* resolved with)
NoRequest == [pc |-> "idle", raw |-> "", scheme |-> "", statOk |-> FALSE,
              statSize |-> 0, readFileCalled |-> FALSE, readOk |-> FALSE,
              readBytes |-> <<>>, result |-> <<>>]

AllAbsent == [id \in LanguageSet |-> "absent"]
AllDisabled == [id \in LanguageSet |-> "false"]
OnlyC == [id \in LanguageSet |-> IF id = "c" THEN "absent" ELSE "false"]

\* the state startClient leaves: the registry constructed, startServer() called
\* (db: the database name the workspace had stored before)
Activated(cfg, exts, db) ==
    \E rnd \in RandomDraws(db) :
    LET r == StartServer(<<>>, <<>>, NoCache, cfg, exts, db, rnd)
    IN  /\ config = cfg
        /\ extensions = exts
        /\ filteredAll = r.filteredAll
        /\ dbName = r.dbName
        /\ servers = r.servers
        /\ serverHandles = r.serverHandles
        /\ registryDisposed = FALSE
        /\ deactivated = FALSE
        /\ tasks = <<>>
        /\ changes = 0
        /\ fires = 0
        /\ throws = 0

Init ==
    /\ \E cfg \in {OnlyC, AllDisabled} : Activated(cfg, {}, StoredName)
    /\ symbolIndexSize \in {UserSize(2)}
    /\ workspaceFileCount = 51
    /\ workspaceKind \in {[folders |-> "remote", remoteHub |-> "loadFalse"]}
    /\ req = NoRequest

Next ==
    \/ ChangeConfiguration
    \/ ChangeExtensions
    \/ \E i \in 1..Len(servers) : ClientReady(i)
    \/ \E i \in 1..Len(servers) : ClientFailed(i)
    \/ \E i \in 1..Len(servers) : FindFilesDone(i)
    \/ \E i \in 1..Len(servers) : QueryDone(i)
    \/ \E i \in 1..Len(servers) : InitAnswered(i)
    \/ Deactivate

Spec == Init /\ [][Next]_vars


(***************************************************************************)
(* The database name over starts and restarts, in a workspace that has a   *)
(* name stored and in one that has none.                                   *)
(***************************************************************************)
InitDb ==
    /\ \E cfg \in {OnlyC, AllDisabled} : \E db \in {NoName, StoredName} :
          Activated(cfg, {}, db)
    /\ symbolIndexSize = UserSize(2)
    /\ workspaceFileCount = 51
    /\ workspaceKind = [folders |-> "remote", remoteHub |-> "loadFalse"]
    /\ req = NoRequest

NextDb ==
    \/ ChangeConfiguration
    \/ ChangeExtensions
    \/ \E i \in 1..Len(servers) : ClientReady(i)
    \/ \E i \in 1..Len(servers) : ClientFailed(i)

SpecDb == InitDb /\ [][NextDb]_vars

(***************************************************************************)
(* Initialization of one server instance over every workspace: the         *)
(* instance startClient starts, its init chain, and deactivation.          *)
(***************************************************************************)
IndexSizes == {NotSet, UserSize(-1), UserSize(0), UserSize(2), UserSize(50), UserSize(52)}
FileCounts == {0, 3, 50, 51, 53}

InitOne ==
    /\ Activated(AllAbsent, {}, StoredName)
    /\ symbolIndexSize \in IndexSizes
    /\ workspaceFileCount \in FileCounts
    /\ workspaceKind \in WorkspaceKinds
    /\ req = NoRequest

NextOne ==
    \/ ClientReady(1)
    \/ ClientFailed(1)
    \/ FindFilesDone(1)
    \/ QueryDone(1)
    \/ InitAnswered(1)
    \/ InitRejected(1)
    \/ Deactivate

SpecInit == InitOne /\ [][NextOne]_vars

(***************************************************************************)
(* The file/read request handler: client.onRequest('file/read', ...)       *)
(***************************************************************************)
\* the size limit `1024 ** 2`
MaxFileSize == 1048576

\* A byte sequence is kept run-length encoded: a sequence of <<byte, count>>.
EmptyBytes == <<>>

\* the request strings the server sends, and what vscode.Uri.parse makes of
\* them: a scheme, or "throws" for a string Uri.parse rejects
RawRequests ==
    {"file:///w/a.c", "file:///w/b.c", "/w/a.c", "vscode-vfs://github/o/r/a.c",
     "vscode-notebook-cell:/w/n.ipynb#c1", "vscode-notebook-cell:/w/n.ipynb#c2",
     "untitled:Untitled-1", "foo:/x", "a b:/x"}

UriParse(raw) ==
    CASE raw \in {"file:///w/a.c", "file:///w/b.c", "/w/a.c"} -> "file"
      [] raw = "vscode-vfs://github/o/r/a.c" -> "vscode-vfs"
      [] raw \in {"vscode-notebook-cell:/w/n.ipynb#c1",
                  "vscode-notebook-cell:/w/n.ipynb#c2"} -> "vscode-notebook-cell"
      [] raw = "untitled:Untitled-1" -> "untitled"
      [] raw = "foo:/x" -> "foo"
      [] OTHER -> "throws"

\* vscode.workspace.fs.isWritableFileSystem(scheme): "true", "false", or
\* "undefined" for a scheme no file system provider is registered for
IsWritableFileSystem(scheme) ==
    CASE scheme = "file" -> "true"
      [] scheme = "vscode-vfs" -> "false"
      [] OTHER -> "undefined"

\* new TextEncoder().encode(text) of a text of code points below 2048, and
\* Array.from of it
Utf8(cp) ==
    IF cp < 128 THEN <<<<cp, 1>>>>
    ELSE <<<<192 + (cp \div 64), 1>>, <<128 + (cp % 64), 1>>>>

RECURSIVE EncodeText(_)
EncodeText(text) ==
    IF text = <<>> THEN EmptyBytes
    ELSE Utf8(Head(text)) \o EncodeText(Tail(text))

\* what vscode.workspace.fs.readFile yields for a file of `size` bytes, and
\* Array.from of it
FileBytes(size) == IF size = 0 THEN EmptyBytes ELSE <<<<7, size>>>>

Texts == {<<>>, <<97>>, <<233, 97>>}
FileSizes == {0, 1, 3, MaxFileSize - 1, MaxFileSize, MaxFileSize + 1}

Returned(r, bytes) == [r EXCEPT !.pc = "returned", !.result = bytes]

\* the handler up to its first await
Receive(raw) ==
    LET scheme == UriParse(raw)
        r == [NoRequest EXCEPT !.raw = raw, !.scheme = scheme]
    IN  IF scheme = "throws" THEN [r EXCEPT !.pc = "rejected"]
        ELSE IF scheme = "vscode-notebook-cell" THEN [r EXCEPT !.pc = "opening"]
        ELSE IF IsWritableFileSystem(scheme) = "undefined" THEN Returned(r, EmptyBytes)
        ELSE [r EXCEPT !.pc = "stat"]

\* mutant of TooLarge: `>=` for `>`
TooLargeFrom(size) == size >= MaxFileSize

\* `stat.size > 1024 ** 2`
TooLarge(size) == size > MaxFileSize

\* the handler after `await vscode.workspace.fs.stat(uri)` resolved
Statted(r, size) ==
    LET st == [r EXCEPT !.statOk = TRUE, !.statSize = size]
    IN  IF TooLarge(size)
        THEN Returned(st, EmptyBytes)
        ELSE [st EXCEPT !.pc = "reading", !.readFileCalled = TRUE]

\* the handler after `await vscode.workspace.fs.readFile(uri)` resolved
ReadFile(r, bytes) ==
    Returned([r EXCEPT !.readOk = TRUE, !.readBytes = bytes], bytes)

supervisorAll == <<registryVars, workspaceVars, supervisorVars>>

\* the server sends file/read
FileReadRequest ==
    /\ req.pc = "idle"
    /\ \E raw \in RawRequests : req' = Receive(raw)
    /\ UNCHANGED supervisorAll

\* openTextDocument settles: the cell's text, or a failure
OpenTextDocumentDone ==
    /\ req.pc = "opening"
    /\ \/ \E text \in Texts : req' = Returned(req, EncodeText(text))
       \/ req' = Returned(req, EmptyBytes)
    /\ UNCHANGED supervisorAll

\* fs.stat settles: a size, or a failure
StatDone ==
    /\ req.pc = "stat"
    /\ \/ \E size \in FileSizes : req' = Statted(req, size)
       \/ req' = Returned(req, EmptyBytes)
    /\ UNCHANGED supervisorAll

\* fs.readFile settles: the bytes the file holds by then (it may have changed
\* since stat), or a failure
ReadFileDone ==
    /\ req.pc = "reading"
    /\ \/ \E size \in FileSizes : req' = ReadFile(req, FileBytes(size))
       \/ req' = Returned(req, EmptyBytes)
    /\ UNCHANGED supervisorAll

\* the response (or the error) has gone to the server
RequestDone ==
    /\ req.pc \in {"returned", "rejected"}
    /\ req' = NoRequest
    /\ UNCHANGED supervisorAll

InitRead ==
    /\ Activated(AllAbsent, {}, StoredName)
    /\ symbolIndexSize = NotSet
    /\ workspaceFileCount = 0
    /\ workspaceKind = [folders |-> "local", remoteHub |-> "absent"]
    /\ req = NoRequest

NextRead ==
    \/ FileReadRequest
    \/ OpenTextDocumentDone
    \/ StatDone
    \/ ReadFileDone
    \/ RequestDone

SpecRead == InitRead /\ [][NextRead]_vars

(***************************************************************************)
(* The registry alone, over every configuration of the language flags.     *)
(***************************************************************************)
\* a read of getSupportedLanguages() that fills the cache
ReadSupportedLanguages ==
    /\ ~filteredAll.valid
    /\ filteredAll' = GetSupportedLanguages(filteredAll, config, extensions)
    /\ UNCHANGED <<config, extensions, registryDisposed, workspaceVars,
                   supervisorVars, req>>

InitRegistry ==
    /\ config \in [LanguageSet -> FlagValues]
    /\ extensions \in SUBSET (CompanionExtensions \cup {RemoteHubExtension})
    /\ filteredAll = NoCache
    /\ registryDisposed = FALSE
    /\ dbName = NoName
    /\ servers = <<>>
    /\ serverHandles = <<>>
    /\ tasks = <<>>
    /\ deactivated = FALSE
    /\ changes = 0
    /\ fires = 0
    /\ throws = 0
    /\ symbolIndexSize = NotSet
    /\ workspaceFileCount = 0
    /\ workspaceKind = [folders |-> "local", remoteHub |-> "absent"]
    /\ req = NoRequest

NextRegistry == ReadSupportedLanguages

SpecRegistry == InitRegistry /\ [][NextRegistry]_vars


(***************************************************************************)
(* Properties                                                              *)
(***************************************************************************)
ServerIds == 1..Len(servers)

\* no stopServers call is suspended and no start is pending
Quiescent == tasks = <<>> /\ \A i \in ServerIds : servers[i].handle # "pending"

\* no start was rejected and no dispose threw
FaultFree == throws = 0 /\ \A i \in ServerIds : servers[i].handle # "rejected"

\* the started handles that have not been disposed
LiveHandles ==
    {i \in ServerIds : servers[i].handle = "fulfilled" /\ servers[i].handleDisposed = "no"}

\* the instances whose language client is running
Running(i) ==
    /\ servers[i].handle = "fulfilled"
    /\ servers[i].client
    /\ "clientStart" \notin servers[i].disposed

\* C1: once all change handlers have run to completion, exactly one started
\* handle exists that has not been disposed and, when some language is
\* enabled, exactly one server instance is running (stated for the runs in
\* which no start failed and no dispose threw, before deactivation).
C1_ExactlyOneRunning ==
    (Quiescent /\ FaultFree /\ ~deactivated /\ FilterLanguages(config, extensions) # <<>>)
        => /\ Cardinality(LiveHandles) = 1
           /\ Cardinality({i \in ServerIds : Running(i)}) = 1

\* C2: whenever startServer starts a server, every server instance whose
\* start was initiated earlier has been awaited (its promise is settled) and,
\* if it started, disposed.
C2_StopBeforeStart ==
    [][(Len(servers') > Len(servers) /\ servers'[Len(servers')].client) =>
          \A j \in 1..Len(servers) :
              servers'[j].client =>
                  /\ servers'[j].handle # "pending"
                  /\ servers'[j].handle = "fulfilled" => servers'[j].handleDisposed # "no"]_vars

\* C3: a failure to stop one instance (a rejected start, a throwing dispose)
\* is isolated: every change notification whose handler has gone past its
\* await has started exactly one new instance, and every started instance
\* that a finished stopServers call owned has been disposed.
C3_ShutdownFailuresIsolated ==
    /\ Len(servers) = 1 + fires - Cardinality({t \in 1..Len(tasks) : tasks[t].kind = "change"})
    /\ \A i \in ServerIds :
          ( /\ servers[i].handle = "fulfilled"
            /\ i \notin SeqToSet(serverHandles)
            /\ \A t \in 1..Len(tasks) : i \notin SeqToSet(tasks[t].old) )
          => servers[i].handleDisposed # "no"

\* the configured cap, clamped to >= 0
ConfiguredCap ==
    IF ~symbolIndexSize.set THEN 500
    ELSE IF symbolIndexSize.value < 0 THEN 0 ELSE symbolIndexSize.value

\* the unlimited-fetch capability is available in this workspace
CapabilityAvailable ==
    \/ workspaceKind.folders = "local"
    \/ workspaceKind.folders = "remote" /\ workspaceKind.remoteHub = "loadTrue"

\* the first n discovered files, as queue/init carries them
FirstFiles(n) ==
    [k \in 1..(IF n < workspaceFileCount THEN n ELSE workspaceFileCount) |->
        <<"file", (k * 37) % 101>>]

\* C4: a rejected capability query counts as capability absent: queue/init is
\* still sent, with the first min(F, C) files.
C4_QueryFailureIsAbsent ==
    \A i \in ServerIds :
        servers[i].query = "rejected" =>
            /\ servers[i].init \in {"sent", "done"}
            /\ servers[i].payload = FirstFiles(ConfiguredCap)

\* C5: the queue/init payload is the first min(F, effective cap) discovered
\* files in discovery order, the effective cap being C when F <= 50,
\* unbounded when F > 50 and the capability is available, and C otherwise.
C5_PayloadIsCappedPrefix ==
    \A i \in ServerIds :
        servers[i].init \in {"sent", "done"} =>
            servers[i].payload =
                IF workspaceFileCount > 50 /\ CapabilityAvailable
                THEN FirstFiles(workspaceFileCount)
                ELSE FirstFiles(ConfiguredCap)

\* C5 witness: more than 50 files, capability available, cap 2: all files sent
C5_Witness ==
    /\ workspaceFileCount = 53
    /\ CapabilityAvailable
    /\ symbolIndexSize = UserSize(2)
    /\ servers[1].init = "done"
    /\ Len(servers[1].payload) = 53

\* C6: the file/read handler never completes with an error.
C6_ReadNeverRejects == req.pc # "rejected"

\* C7: an instance started with zero enabled languages is a no-op disposable:
\* no client, no watcher or other disposable, no init chain, no queue/init,
\* no file/read handler, and its promise is fulfilled.
C7_NoLanguagesNoServer ==
    \A i \in ServerIds :
        servers[i].languages = <<>> =>
            /\ servers[i].handle = "fulfilled"
            /\ ~servers[i].client
            /\ servers[i].disposables = <<>>
            /\ servers[i].init = "none"
            /\ servers[i].payload = <<>>
            /\ ~servers[i].fileRead

\* C7 witness: the initial start and a restart both found zero languages,
\* and the restart's handle has been disposed by a later restart
C7_Witness ==
    /\ Len(servers) >= 3
    /\ servers[1].languages = <<>>
    /\ servers[2].languages # <<>>
    /\ servers[3].languages = <<>>
    /\ servers[2].handleDisposed = "yes"

\* a companion extension that shadows language id is installed
Shadowed(id, exts) ==
    \/ id = "typescript" /\ TsExtension \in exts
    \/ id = "python" /\ PyExtension \in exts

TableIndex(id) == CHOOSE p \in 1..Len(LanguageIds) : LanguageIds[p] = id

\* C8: getSupportedLanguages returns exactly the languages of the table whose
\* enabled flag is true or absent and that no companion extension shadows
\* (each once, in table order).
C8_EnabledSet ==
    filteredAll.valid =>
        /\ SeqToSet(filteredAll.langs) =
              {id \in LanguageSet :
                  config[id] \in {"true", "absent"} /\ ~Shadowed(id, extensions)}
        /\ \A p, q \in 1..Len(filteredAll.langs) :
              p < q => TableIndex(filteredAll.langs[p]) < TableIndex(filteredAll.langs[q])

\* C8 witness: a read with python enabled but shadowed, c not set, go disabled
C8_Witness ==
    /\ filteredAll.valid
    /\ config["python"] = "true" /\ PyExtension \in extensions
    /\ config["c"] = "absent" /\ config["go"] = "false"
    /\ TsExtension \notin extensions /\ config["typescript"] = "absent"
    /\ "python" \notin SeqToSet(filteredAll.langs)
    /\ "c" \in SeqToSet(filteredAll.langs)
    /\ "typescript" \in SeqToSet(filteredAll.langs)

\* what a read of getSupportedLanguages() returns now
ReadNow == GetSupportedLanguages(filteredAll, config, extensions).langs

\* C9 as claimed: in every reachable state every change has fired exactly one
\* notification and a read returns the filter of the current configuration.
C9_NeverStale ==
    /\ fires = changes
    /\ ReadNow = FilterLanguages(config, extensions)

\* C9 amended: the same, as long as the registry has not been disposed.
C9_FreshUntilDisposed ==
    ~registryDisposed =>
        /\ fires = changes
        /\ ReadNow = FilterLanguages(config, extensions)

\* C9 witness: after two changes the cache was refilled with the new set
C9_Witness ==
    /\ ~registryDisposed
    /\ changes = 2
    /\ filteredAll.valid
    /\ "python" \in SeqToSet(filteredAll.langs)
    /\ "c" \notin SeqToSet(filteredAll.langs)

\* C10: every instance has a selector derived from the language set of its
\* init options, and when no stopServers call is in progress every running
\* instance was started with the current enabled-language set.
C10_OptionsCurrent ==
    /\ \A i \in ServerIds : servers[i].selector = servers[i].languages
    /\ tasks = <<>> =>
          \A i \in ServerIds :
              Running(i) => servers[i].languages = FilterLanguages(config, extensions)

\* the instances that got as far as building their init options
WithOptions == {i \in ServerIds : servers[i].client}

\* C11: the database name is created at most once: every instance gets the
\* same databaseName in its init options, which is the stored one, and the
\* stored name changes only when none was stored.
C11_OneDatabaseName ==
    /\ [](\A i \in WithOptions :
            /\ servers[i].databaseName # NoName
            /\ servers[i].databaseName = dbName
            /\ \A j \in WithOptions : servers[j].databaseName = servers[i].databaseName)
    /\ [][dbName' # dbName => dbName = NoName]_vars

\* C11 witness: no name was stored, a restart overlapped the first start,
\* a third start overlaps the second, and all three got the one name
C11_Witness ==
    /\ Len(servers) >= 3
    /\ \A i \in 1..3 : servers[i].client /\ servers[i].databaseName = dbName
    /\ dbName \in RandomNames
    /\ servers[2].handle = "pending"
    /\ servers[3].handle = "pending"

\* the bulk initialization of instance s is in flight
InFlight(s) == s.init \in {"finding", "query", "sent"}

\* C12: when an instance is disposed (its dispose() ran through) while its
\* bulk initialization is in flight, the 'Building Index...' progress task is
\* complete from that disposal on, whatever the initialization does, and the
\* disposal leaves the initialization as it was.
C12_ProgressEndsAtDisposal ==
    /\ [](\A i \in ServerIds :
            (servers[i].client /\ servers[i].handleDisposed = "yes")
                => Progress(servers[i]) = "done")
    /\ [][\A i \in ServerIds :
            (InFlight(servers[i]) /\ servers[i].handleDisposed = "no"
                /\ servers'[i].handleDisposed = "yes")
                => /\ servers'[i].init = servers[i].init
                   /\ servers'[i].query = servers[i].query
                   /\ servers'[i].payload = servers[i].payload]_vars

\* C12 witness: disposed during the capability query; the progress is done
\* while the query is still pending
C12_Witness ==
    /\ servers[1].handleDisposed = "yes"
    /\ servers[1].init = "query"
    /\ InFlight(servers[1])
    /\ Progress(servers[1]) = "done"

\* C13: for a location whose stat succeeded, file/read returns the bytes
\* readFile yielded if the stat size is at most 1 MiB and the read succeeded,
\* and the empty sequence otherwise; readFile is invoked exactly when the
\* stat size is at most 1 MiB.
C13_ReadWithinLimit ==
    req.statOk =>
        /\ req.readFileCalled <=> req.statSize <= 1024 * 1024
        /\ req.pc = "returned" =>
              req.result = IF req.statSize <= 1024 * 1024 /\ req.readOk
                           THEN req.readBytes ELSE <<>>

\* C13 witness: a file of exactly 1 MiB was read and returned in full
C13_Witness ==
    /\ req.pc = "returned"
    /\ req.statOk /\ req.statSize = 1024 * 1024
    /\ req.readOk
    /\ req.result = <<<<7, 1024 * 1024>>>>

\* the workspace is a remote-hub virtual workspace
RemoteHubWorkspace ==
    workspaceKind.folders = "remote" /\ workspaceKind.remoteHub # "absent"

\* the cap was lifted for this workspace
CapLifted == workspaceFileCount > 50 /\ CapabilityAvailable

\* C14 as claimed: the status indicator is shown only when fewer files were
\* submitted than discovered or indexing is disabled for the workspace (a
\* remote-hub workspace whose contents cannot be fetched).
C14_OnlyWhenCapped ==
    \A i \in ServerIds :
        servers[i].status # "none" =>
            \/ Len(servers[i].payload) < workspaceFileCount
            \/ RemoteHubWorkspace /\ ~CapabilityAvailable

\* C14 amended: the status indicator is shown for exactly the instances whose
\* queue/init was answered, capped or not; it carries the command hint
\* exactly when the cap was not lifted and the workspace is a remote-hub
\* virtual workspace, and the generic message otherwise.
C14_StatusAfterInit ==
    \A i \in ServerIds :
        /\ servers[i].status # "none" <=> servers[i].init = "done"
        /\ "statusItem" \in SeqToSet(servers[i].disposables) <=> servers[i].status # "none"
        /\ servers[i].status = "hint" <=>
              (servers[i].init = "done" /\ ~CapLifted /\ RemoteHubWorkspace)

\* C14 witness: 53 files in a remote-hub workspace whose contents were
\* fetched, all submitted: the indicator is shown, with the generic message
C14_Witness ==
    /\ workspaceFileCount = 53
    /\ RemoteHubWorkspace
    /\ servers[1].init = "done"
    /\ Len(servers[1].payload) = 53
    /\ servers[1].status = "generic"

\* C15: after deactivation no server instance is started, and once no
\* stopServers call is suspended and no start is pending none is running.
C15_NoServerAfterDeactivation ==
    /\ [][deactivated =>
            \A i \in 1..Len(servers') : i > Len(servers) => ~servers'[i].client]_vars
    /\ []((deactivated /\ Quiescent /\ throws = 0) => \A i \in ServerIds : ~Running(i))

\* the order in which the `init` chain of an instance may move
InitSteps ==
    {<<"none", "finding">>, <<"finding", "query">>, <<"finding", "sent">>,
     <<"query", "sent">>, <<"query", "failed">>, <<"sent", "done">>,
     <<"sent", "failed">>}

\* C16: per instance the client is ready before file discovery starts,
\* discovery is complete before the capability query, which is made exactly
\* when F > 50 and is complete before queue/init is sent; queue/init is sent
\* at most once (no step leads back), and the file/read handler is registered
\* before queue/init is sent.
C16_InitOrder ==
    /\ [](\A i \in ServerIds :
            LET s == servers[i]
            IN  /\ s.init # "none" => (s.handle = "fulfilled" /\ s.fileRead)
                /\ s.init \in {"none", "finding"} => (s.query = "none" /\ s.payload = <<>>)
                /\ s.init = "query" =>
                      (s.query = "pending" /\ s.payload = <<>> /\ workspaceFileCount > 50)
                /\ s.init \in {"sent", "done"} =>
                      /\ s.fileRead
                      /\ s.numOfFiles = workspaceFileCount
                      /\ IF workspaceFileCount > 50
                         THEN s.query \in {"true", "false"}
                         ELSE s.query = "none")
    /\ [][\A i \in ServerIds :
            servers'[i].init # servers[i].init
                => <<servers[i].init, servers'[i].init>> \in InitSteps]_vars

\* C16 witness: 53 files, the companion answered no, queue/init was sent
\* after the query and has been answered
C16_Witness ==
    /\ workspaceFileCount = 53
    /\ workspaceKind = [folders |-> "remote", remoteHub |-> "loadFalse"]
    /\ servers[1].init = "done"
    /\ servers[1].query = "false"
    /\ servers[1].fileRead
    /\ servers[1].numOfFiles = 53

\* C17: once an instance's handle has been disposed, every resource
\* registered for it is disposed and none is created for it afterwards.
C17_DisposedMeansReleased ==
    /\ [](\A i \in ServerIds :
            servers[i].handleDisposed = "yes" =>
                SeqToSet(servers[i].disposables) \subseteq servers[i].disposed)
    /\ [][\A i \in ServerIds :
            servers[i].handleDisposed = "yes" =>
                servers'[i].disposables = servers[i].disposables]_vars

\* the stopServers call that owned instance i has run its loop
Stopped(i) ==
    /\ i \notin SeqToSet(serverHandles)
    /\ \A t \in 1..Len(tasks) : i \notin SeqToSet(tasks[t].old)

\* C18: when the servers have been stopped, the watcher and the client of an
\* instance whose start failed (client.onReady rejected) have been released.
C18_FailedStartReleased ==
    \A i \in ServerIds :
        (servers[i].handle = "rejected" /\ Stopped(i) /\ throws = 0) =>
            {"watcher", "clientStart", "clientDestroy"} \subseteq servers[i].disposed

\* C19: no queue/init request is sent on the client of an instance whose
\* handle has been disposed.
C19_NoInitAfterDispose ==
    [][\A i \in ServerIds :
          (servers[i].init # "sent" /\ servers'[i].init = "sent")
              => servers[i].handleDisposed # "yes"]_vars

====
